---- MODULE Spec2Model ----
(***************************************************************************)
(* Model of py_shell_creator/api.py: the annotation-to-schema compiler     *)
(* (create_schema_object_from_annotation), the ShellFunctionDescriptor     *)
(* with its lazily cached argument schema, the Shell registry and the two  *)
(* front-ends (CommandLineApp.exec and the WebService end point).          *)
(***************************************************************************)
EXTENDS Integers, Sequences, FiniteSets, TLC

VARIABLES
    annotation,     \* the annotation handed to create_schema_object_from_annotation
    compiled,       \* what that call produced (schema, required) or the exception it raised
    signature,      \* inspect.signature(self.function).parameters of one descriptor
    heap,           \* the schema dicts built so far by get_args_json_schema (by object identity)
    _args_json_schema, \* ShellFunctionDescriptor._args_json_schema: None (0) or a reference into heap
    threads,        \* the threads the front-end runs against the descriptor
    pc,             \* per thread: its position inside has_args / get_args_json_schema
    todo,           \* per thread: the keys of default_values still to be patched
    observed,       \* per thread: what its last call returned (the value it saw on return)
    _functions,     \* Shell._functions, a dict in insertion order: sequence of <<name, descriptor>>
    _flask_app,     \* WebService._flask_app: None (FALSE), or built with its url rules
    last            \* the last call made on the Shell or a front-end, and how it ended

compileVars == <<annotation, compiled>>
descriptorVars == <<signature, heap, _args_json_schema, threads, pc, todo, observed>>
shellVars == <<_functions, _flask_app, last>>
vars == <<annotation, compiled, signature, heap, _args_json_schema, threads, pc, todo,
          observed, _functions, _flask_app, last>>

(***************************************************************************)
(* Bounds of the explored inputs.                                          *)
(***************************************************************************)
MaxUnionLen == 3
MaxFields == 2

(***************************************************************************)
(* Python dicts and the small amount of Python semantics the code uses.    *)
(* A dict is a function from its keys; lists are sequences.                *)
(***************************************************************************)
EmptyDict == [k \in {} |-> 0]
Put(d, k, v) == [x \in (DOMAIN d) \cup {k} |-> IF x = k THEN v ELSE d[x]]
Has(d, k) == k \in DOMAIN d

\* The value stored under "type" is either one type name (a str) or a list of names.
Scalar(name) == [scalar |-> TRUE, names |-> <<name>>]
TypeList(names) == [scalar |-> FALSE, names |-> names]

\* len() of the type names the code ever stores as a str.
StrLen(name) ==
    CASE name = "array" -> 5
      [] name = "object" -> 6
      [] name = "number" -> 6
      [] name = "string" -> 6
      [] name = "boolean" -> 7

\* len(schema_object["type"]): length of the list, or of the str.
PyLen(t) == IF t.scalar THEN StrLen(t.names[1]) ELSE Len(t.names)

SeqRange(s) == {s[i] : i \in 1..Len(s)}
IsDistinct(s) == \A i, j \in 1..Len(s) : i # j => s[i] # s[j]
SeqsUpTo(S, lo, hi) == UNION {[1..n -> S] : n \in lo..hi}

(***************************************************************************)
(* Annotations (type descriptors).                                         *)
(***************************************************************************)
Prim(p) == [tag |-> "prim", p |-> p]                 \* str, int, float, bool
NoneType == [tag |-> "none"]                         \* type(None), the absence marker
Other == [tag |-> "other"]                           \* any other object, e.g. bytes
Literal(vals) == [tag |-> "lit", vals |-> vals]      \* typing.Literal[...]
ListOf(d) == [tag |-> "seq", elem |-> d]             \* typing.List[d]
UnionOf(args) == [tag |-> "union", args |-> args]    \* typing.Union[...]
Annotated(base, meta) == [tag |-> "ann", base |-> base, meta |-> meta]
Record(fields) == [tag |-> "rec", fields |-> fields] \* dict / class with __annotations__

PrimTypes == {"str", "int", "float", "bool"}

type_dict_ == [p \in PrimTypes |->
    CASE p = "str" -> "string"
      [] p = "int" -> "number"
      [] p = "float" -> "number"
      [] p = "bool" -> "boolean"]

(***************************************************************************)
(* create_schema_object_from_annotation                                    *)
(***************************************************************************)
Result(s, r) == [status |-> "ok", schema |-> s, required |-> r]
Raise(e) == [status |-> e, schema |-> EmptyDict, required |-> FALSE]
Pending == [status |-> "pending", schema |-> EmptyDict, required |-> FALSE]

\* lines 28-30: store the child's schema under the key, list the key when required
RecordFieldAlwaysRequired(schema_object, key, child) ==
    [schema_object EXCEPT
        !["properties"] = Put(@, key, child.schema),
        !["required"] = Append(@, key)]

RecordField(schema_object, key, child) ==
    [schema_object EXCEPT
        !["properties"] = Put(@, key, child.schema),
        !["required"] = IF child.required THEN Append(@, key) ELSE @]

\* lines 45-50: one key of the Annotated metadata dict
ApplyMetaKeyDefaultKeepsRequired(st, key, value) ==
    IF key = "required"
    THEN Result(st.schema, value # 0)
    ELSE Result(Put(st.schema, key, value), st.required)

ApplyMetaKey(st, key, value) ==
    IF key = "required"
    THEN Result(st.schema, value # 0)
    ELSE Result(Put(st.schema, key, value), IF key = "default" THEN FALSE ELSE st.required)

\* lines 65-66: collapse a one-entry type list
UnionCollapse(st) ==
    IF ~Has(st.schema, "type") THEN Raise("KeyError")
    ELSE IF PyLen(st.schema["type"]) = 1
         THEN Result([st.schema EXCEPT !["type"] = Scalar(@.names[1])], st.required)
         ELSE st

\* line 62: schema_object["type"].append( type_dict_[ arg ] )
UnionAppend(st, name) ==
    IF ~Has(st.schema, "type") THEN Raise("KeyError")
    ELSE IF st.schema["type"].scalar THEN Raise("AttributeError")
    ELSE Result([st.schema EXCEPT !["type"] = TypeList(Append(@.names, name))], st.required)

RECURSIVE create_schema_object_from_annotation(_)
RECURSIVE RecordLoop(_, _, _)
RECURSIVE MetaLoop(_, _, _)
RECURSIVE UnionLoop(_, _, _)

\* lines 26-30: the loop over annotation.items(); required is overwritten by each child
RecordLoop(fields, i, st) ==
    IF i > Len(fields) THEN st
    ELSE LET child == create_schema_object_from_annotation(fields[i][2])
         IN IF child.status # "ok" THEN child
            ELSE RecordLoop(fields, i + 1,
                     Result(RecordField(st.schema, fields[i][1], child), child.required))

\* lines 44-50: the loop over annotation_dict.items()
MetaLoop(meta, i, st) ==
    IF i > Len(meta) THEN st
    ELSE MetaLoop(meta, i + 1, ApplyMetaKey(st, meta[i][1], meta[i][2]))

\* lines 58-64: the loop over the Union's args
UnionLoop(args, i, st) ==
    IF i > Len(args) THEN st
    ELSE LET arg == args[i]
             next ==
                IF arg.tag = "none" THEN Result(st.schema, FALSE)
                ELSE IF arg.tag = "ann" THEN Raise("TypeError")   \* arg in type_dict_ hashes the metadata dict
                ELSE IF arg.tag = "prim" THEN UnionAppend(st, type_dict_[arg.p])
                ELSE create_schema_object_from_annotation(arg)
         IN IF next.status # "ok" THEN next ELSE UnionLoop(args, i + 1, next)

create_schema_object_from_annotation(a) ==
    CASE a.tag = "rec" ->
            IF Len(a.fields) > 0
            THEN RecordLoop(a.fields, 1,
                    Result([type |-> Scalar("object"), properties |-> EmptyDict, required |-> <<>>],
                           FALSE))
            ELSE Result(EmptyDict, FALSE)
      [] a.tag = "ann" ->
            LET start == IF a.base.tag = "prim"
                         THEN Result(Put(EmptyDict, "type", Scalar(type_dict_[a.base.p])), FALSE)
                         ELSE create_schema_object_from_annotation(a.base)
            IN IF start.status # "ok" THEN start ELSE MetaLoop(a.meta, 1, start)
      [] a.tag = "lit" -> Result(Put(EmptyDict, "enum", a.vals), TRUE)
      [] a.tag = "union" ->
            LET looped == UnionLoop(a.args, 1, Result(Put(EmptyDict, "type", TypeList(<<>>)), FALSE))
            IN IF looped.status # "ok" THEN looped ELSE UnionCollapse(looped)
      [] a.tag = "seq" ->
            LET child == create_schema_object_from_annotation(a.elem)
            IN IF child.status # "ok" THEN child
               ELSE Result([type |-> Scalar("array"), items |-> child.schema], child.required)
      [] a.tag = "prim" -> Result(Put(EmptyDict, "type", Scalar(type_dict_[a.p])), TRUE)
      [] OTHER -> Raise("ValueError")

(***************************************************************************)
(* The annotations explored.  typing.Union flattens nested Unions, drops   *)
(* repeated args and needs two or more of them, so the Unions here have    *)
(* pairwise distinct, non-Union args.                                      *)
(***************************************************************************)
Int_ == Prim("int")
OptionalInt == UnionOf(<<Int_, NoneType>>)
Lit12 == Literal(<<1, 2>>)

Metas ==
    {<<>>, <<<<"required", 0>>>>, <<<<"required", 1>>>>, <<<<"default", 0>>>>,
     <<<<"description", 7>>>>,
     <<<<"required", 1>>, <<"default", 0>>>>, <<<<"default", 0>>, <<"required", 1>>>>,
     <<<<"required", 0>>, <<"default", 0>>>>, <<<<"default", 0>>, <<"required", 0>>>>,
     <<<<"required", 1>>, <<"description", 7>>, <<"default", 0>>>>,
     <<<<"default", 0>>, <<"description", 7>>, <<"required", 1>>>>}

Leaves == {Prim(p) : p \in PrimTypes} \cup {Lit12, Other, NoneType}
Lists == {ListOf(d) : d \in Leaves \cup {OptionalInt}}
Annotateds ==
    {Annotated(b, m) : b \in {Int_, Prim("str"), Lit12, ListOf(Int_), OptionalInt, Other},
                       m \in Metas}

UnionBranches ==
    {NoneType, Lit12, ListOf(Int_), Record(<<>>), Record(<<<<"a", Int_>>>>),
     Annotated(Int_, <<<<"required", 1>>>>), Other} \cup {Prim(p) : p \in PrimTypes}
Unions == {UnionOf(s) : s \in {t \in SeqsUpTo(UnionBranches, 2, MaxUnionLen) : IsDistinct(t)}}

FieldNames == <<"a", "b", "c", "d">>
FieldTypes == {Int_, OptionalInt, Annotated(Int_, <<<<"default", 0>>>>)}
RecordsOver(T) ==
    {Record([i \in 1..Len(ts) |-> <<FieldNames[i], ts[i]>>]) : ts \in SeqsUpTo(T, 0, MaxFields)}
InnerRecords == RecordsOver(FieldTypes)
Records == RecordsOver(FieldTypes \cup InnerRecords)

Annotations == Leaves \cup Lists \cup Annotateds \cup Unions \cup Records

(***************************************************************************)
(* ShellFunctionDescriptor: get_args_json_schema and has_args.             *)
(* A parameter is its name, its annotation and, when declared, its default.*)
(***************************************************************************)
MaxParams == 2

Param(name, ann, has_default, default) ==
    [name |-> name, annotation |-> ann, has_default |-> has_default, default |-> default]

\* lines 95-100: params, the dict of parameter name -> annotation
SignatureParams(sig) == Record([i \in 1..Len(sig) |-> <<sig[i].name, sig[i].annotation>>])

\* lines 97-104: default_values, in parameter order
default_values(sig) ==
    LET withDefault == SelectSeq(sig, LAMBDA p : p.has_default)
    IN [i \in 1..Len(withDefault) |-> <<withDefault[i].name, withDefault[i].default>>]

\* line 107: self._args_json_schema["properties"][key]["default"] = default_value
SetDefault(schema, key, value) ==
    [schema EXCEPT !["properties"] = [@ EXCEPT ![key] = Put(@, "default", value)]]

\* line 109: list.remove(key), the first occurrence
ListRemoveNothing(lst, key) == lst

ListRemove(lst, key) ==
    LET i == CHOOSE j \in 1..Len(lst) : lst[j] = key /\ \A k \in 1..(j - 1) : lst[k] # key
    IN SubSeq(lst, 1, i - 1) \o SubSeq(lst, i + 1, Len(lst))

\* lines 107-109 for one key, run without interruption
PatchKey(schema, key, value) ==
    LET withDefault == SetDefault(schema, key, value)
    IN IF key \in SeqRange(withDefault["required"])
       THEN [withDefault EXCEPT !["required"] = ListRemove(@, key)]
       ELSE withDefault

RECURSIVE PatchLoop(_, _, _)
\* lines 106-109: the loop over default_values.items()
PatchLoop(schema, defaults, i) ==
    IF i > Len(defaults) THEN schema
    ELSE PatchLoop(PatchKey(schema, defaults[i][1], defaults[i][2]), defaults, i + 1)

\* lines 93-112 run by one caller without interruption on an empty cache
get_args_json_schema(sig) ==
    LET built == create_schema_object_from_annotation(SignatureParams(sig))
    IN IF built.status # "ok" THEN built
       ELSE Result(PatchLoop(built.schema, default_values(sig), 1), FALSE)

\* line 91, on the schema get_args_json_schema returned
has_args(schema) == Has(schema, "required") /\ Len(schema["required"]) > 0

(***************************************************************************)
(* The same code run by threads, one source line at a time.  heap holds    *)
(* the dicts by identity; _args_json_schema is 0 (None) or an index in it. *)
(***************************************************************************)
Threads == {"t1", "t2"}
Idle == [call |-> "none", stage |-> 0, at |-> "idle"]
NoObservation == [call |-> "none", status |-> "none", schema |-> EmptyDict, value |-> FALSE]
At(t, where) == t \in threads /\ pc[t].at = where
Goto(t, where) == [pc EXCEPT ![t] = [@ EXCEPT !.at = where]]
Observation(call, status, schema, value) ==
    [call |-> call, status |-> status, schema |-> schema, value |-> value]
\* the for loop of line 106 is over: line 112 is next
AfterKey(rest) == IF rest = <<>> THEN "return" ELSE "patch"

CallGetArgsJsonSchema(t) ==
    /\ At(t, "idle")
    /\ pc' = [pc EXCEPT ![t] = [call |-> "get", stage |-> 1, at |-> "check"]]
    /\ UNCHANGED <<signature, heap, _args_json_schema, threads, todo, observed>>

CallHasArgs(t) ==
    /\ At(t, "idle")
    /\ pc' = [pc EXCEPT ![t] = [call |-> "has_args", stage |-> 1, at |-> "check"]]
    /\ UNCHANGED <<signature, heap, _args_json_schema, threads, todo, observed>>

\* line 94: if self._args_json_schema is None
CheckCache(t) ==
    /\ At(t, "check")
    /\ pc' = Goto(t, IF _args_json_schema = 0 THEN "build" ELSE "return")
    /\ UNCHANGED <<signature, heap, _args_json_schema, threads, todo, observed>>

\* lines 95-105: read the signature, compile it, store the result in the cache
BuildSchema(t) ==
    /\ At(t, "build")
    /\ LET built == create_schema_object_from_annotation(SignatureParams(signature))
       IN IF built.status # "ok"
          THEN /\ observed' = [observed EXCEPT ![t] =
                                  Observation(pc[t].call, built.status, EmptyDict, FALSE)]
               /\ pc' = [pc EXCEPT ![t] = Idle]
               /\ UNCHANGED <<heap, _args_json_schema, todo>>
          ELSE /\ heap' = Append(heap, built.schema)
               /\ _args_json_schema' = Len(heap) + 1
               /\ todo' = [todo EXCEPT ![t] = default_values(signature)]
               /\ pc' = Goto(t, AfterKey(default_values(signature)))
               /\ UNCHANGED observed
    /\ UNCHANGED <<signature, threads>>

\* line 107, on whatever dict the cache refers to now
PatchDefault(t) ==
    /\ At(t, "patch")
    /\ heap' = [heap EXCEPT ![_args_json_schema] = SetDefault(@, todo[t][1][1], todo[t][1][2])]
    /\ pc' = Goto(t, "member")
    /\ UNCHANGED <<signature, _args_json_schema, threads, todo, observed>>

\* line 108: if key in self._args_json_schema["required"]
CheckRequired(t) ==
    /\ At(t, "member")
    /\ IF todo[t][1][1] \in SeqRange(heap[_args_json_schema]["required"])
       THEN pc' = Goto(t, "remove") /\ UNCHANGED todo
       ELSE pc' = Goto(t, AfterKey(Tail(todo[t]))) /\ todo' = [todo EXCEPT ![t] = Tail(@)]
    /\ UNCHANGED <<signature, heap, _args_json_schema, threads, observed>>

\* line 109: self._args_json_schema["required"].remove(key); ValueError when the
\* key is no longer in the list
RemoveRequired(t) ==
    /\ At(t, "remove")
    /\ IF todo[t][1][1] \in SeqRange(heap[_args_json_schema]["required"])
       THEN /\ heap' = [heap EXCEPT ![_args_json_schema] =
                           [@ EXCEPT !["required"] = ListRemove(@, todo[t][1][1])]]
            /\ todo' = [todo EXCEPT ![t] = Tail(@)]
            /\ pc' = Goto(t, AfterKey(Tail(todo[t])))
            /\ UNCHANGED observed
       ELSE /\ observed' = [observed EXCEPT ![t] =
                               Observation(pc[t].call, "ValueError", EmptyDict, FALSE)]
            /\ todo' = [todo EXCEPT ![t] = <<>>]
            /\ pc' = [pc EXCEPT ![t] = Idle]
            /\ UNCHANGED heap
    /\ UNCHANGED <<signature, _args_json_schema, threads>>

\* line 112: return self._args_json_schema; the caller reads the dict at once.
\* has_args (line 91) calls twice: for '"required" in' and, if so, for len().
ReturnSchema(t) ==
    /\ At(t, "return")
    /\ LET value == heap[_args_json_schema]
       IN IF pc[t].call = "get"
          THEN /\ observed' = [observed EXCEPT ![t] = Observation("get", "ok", value, FALSE)]
               /\ pc' = [pc EXCEPT ![t] = Idle]
          ELSE IF pc[t].stage = 1 /\ Has(value, "required")
          THEN /\ pc' = [pc EXCEPT ![t] = [call |-> "has_args", stage |-> 2, at |-> "check"]]
               /\ UNCHANGED observed
          ELSE /\ observed' = [observed EXCEPT ![t] =
                                  Observation("has_args", "ok", value,
                                              pc[t].stage = 2 /\ Len(value["required"]) > 0)]
               /\ pc' = [pc EXCEPT ![t] = Idle]
    /\ UNCHANGED <<signature, heap, _args_json_schema, threads, todo>>

ParamKinds ==
    {Param("", Prim("str"), FALSE, 0),
     Param("", Int_, TRUE, 0),
     Param("", OptionalInt, FALSE, 0),
     Param("", Annotated(Int_, <<<<"required", 1>>>>), TRUE, 5),
     Param("", Annotated(Int_, <<<<"default", 7>>>>), FALSE, 0),
     Param("", UnionOf(<<Lit12, NoneType>>), FALSE, 0)}
Signatures ==
    {[i \in 1..Len(ks) |-> [ks[i] EXCEPT !.name = FieldNames[i]]] :
        ks \in SeqsUpTo(ParamKinds, 0, MaxParams)}

(***************************************************************************)
(* Shell (the registry) and the front-ends.  The callables registered are  *)
(* add(x: int, y: int), ping() and opt(b: int = 0); the JSON values sent   *)
(* to them are null and a few objects.                                     *)
(***************************************************************************)
FunctionNames == {"add", "ping", "opt"}
SignatureOf(function) ==
    CASE function = "add" -> <<Param("x", Int_, FALSE, 0), Param("y", Int_, FALSE, 0)>>
      [] function = "ping" -> <<>>
      [] function = "opt" -> <<Param("b", Int_, TRUE, 0)>>
Names == {"f", "g"}

JNull == [t |-> "null"]
JNum(v) == [t |-> "num", v |-> v]
JStr(v) == [t |-> "str", v |-> v]
JObj(f) == [t |-> "obj", f |-> f]
Absent == [t |-> "absent"]      \* no args given on the command line
NotJson == [t |-> "notjson"]    \* a string json.loads rejects
JsonValues ==
    {JNull, JObj(EmptyDict), JObj([x |-> JNum(2), y |-> JNum(3)]),
     JObj([x |-> JStr(2), y |-> JNum(3)]), JObj([x |-> JNum(2)]),
     JObj([b |-> JNum(5)]), JObj([b |-> JStr(5)])}

\* lines 81-88: a new descriptor, its schema cache empty
ShellFunctionDescriptor(function, validate_schema, command_line_function) ==
    [function |-> function, validate_schema |-> validate_schema,
     command_line_function |-> command_line_function,
     _args_json_schema |-> [set |-> FALSE, value |-> EmptyDict]]
NoDescriptor == ShellFunctionDescriptor("none", FALSE, FALSE)

\* lines 93-112 on a descriptor, by one caller: the cached dict, built on first use
ArgsSchemaOf(d) ==
    IF d._args_json_schema.set THEN d._args_json_schema.value
    ELSE get_args_json_schema(SignatureOf(d.function)).schema
Cached(d) == [d EXCEPT !._args_json_schema = [set |-> TRUE, value |-> ArgsSchemaOf(d)]]

\* line 133: the keys of the dict, in insertion order
get_function_names(functions) == [i \in 1..Len(functions) |-> functions[i][1]]
IndexOf(functions, name) == CHOOSE i \in 1..Len(functions) : functions[i][1] = name
Registered(functions, name) == \E i \in 1..Len(functions) : functions[i][1] = name
\* line 130
get_function_descriptor(functions, name) == functions[IndexOf(functions, name)][2]
\* lines 135-140
get_non_command_line_function_names(functions) ==
    LET kept == SelectSeq(functions, LAMBDA e : e[2].command_line_function = FALSE)
    IN [i \in 1..Len(kept) |-> kept[i][1]]

\* lines 124-127: the registry after the call, and how the call ended
registerOverwrites(functions, name, function, validate_schema, command_line_function) ==
    LET d == ShellFunctionDescriptor(function, validate_schema, command_line_function)
    IN IF Registered(functions, name)
       THEN [functions |-> [functions EXCEPT ![IndexOf(functions, name)] = <<name, d>>],
             outcome |-> "ok"]
       ELSE [functions |-> Append(functions, <<name, d>>), outcome |-> "ok"]

register(functions, name, function, validate_schema, command_line_function) ==
    IF Registered(functions, name)
    THEN [functions |-> functions, outcome |-> "ValueError"]
    ELSE [functions |->
              Append(functions,
                     <<name, ShellFunctionDescriptor(function, validate_schema,
                                                     command_line_function)>>),
          outcome |-> "ok"]

\* jsonschema.validate(instance, schema) for the keywords the compiler emits
JsonIsType(instance, name) ==
    CASE name = "number" -> instance.t = "num"
      [] name = "string" -> instance.t = "str"
      [] name = "boolean" -> instance.t = "bool"
      [] name = "object" -> instance.t = "obj"
      [] name = "array" -> instance.t = "arr"
      [] OTHER -> FALSE

RECURSIVE Validates(_, _)
Validates(instance, schema) ==
    /\ Has(schema, "type") =>
          \E i \in 1..Len(schema["type"].names) : JsonIsType(instance, schema["type"].names[i])
    /\ Has(schema, "enum") => (instance.t = "num" /\ instance.v \in SeqRange(schema["enum"]))
    /\ (Has(schema, "required") /\ instance.t = "obj") =>
          SeqRange(schema["required"]) \subseteq DOMAIN instance.f
    /\ (Has(schema, "properties") /\ instance.t = "obj") =>
          \A k \in (DOMAIN instance.f) \cap (DOMAIN schema["properties"]) :
              Validates(instance.f[k], schema["properties"][k])
    /\ (Has(schema, "items") /\ instance.t = "arr") =>
          \A i \in 1..Len(instance.e) : Validates(instance.e[i], schema["items"])

\* function(**json_args): Python binds the keywords to the parameters before
\* the body runs, and raises TypeError when it cannot
CallKwargs(sig, json_args) ==
    LET names == {sig[i].name : i \in 1..Len(sig)}
        needed == {sig[i].name : i \in {j \in 1..Len(sig) : ~sig[j].has_default}}
    IN IF json_args.t = "obj" /\ DOMAIN json_args.f \subseteq names
                              /\ needed \subseteq DOMAIN json_args.f
       THEN [mode |-> "kwargs", outcome |-> "ok", invoked |-> TRUE]
       ELSE [mode |-> "kwargs", outcome |-> "TypeError", invoked |-> FALSE]

\* function()
CallNoArgs(sig) ==
    IF \A i \in 1..Len(sig) : sig[i].has_default
    THEN [mode |-> "noargs", outcome |-> "ok", invoked |-> TRUE]
    ELSE [mode |-> "noargs", outcome |-> "TypeError", invoked |-> FALSE]
NotCalled(outcome) == [mode |-> "none", outcome |-> outcome, invoked |-> FALSE]

\* line 221: function(**json_args) if has_args() else function()
WebCallByPayload(d, json_args) ==
    IF json_args.t # "null"
    THEN CallKwargs(SignatureOf(d.function), json_args)
    ELSE CallNoArgs(SignatureOf(d.function))

WebCall(d, json_args) ==
    IF has_args(ArgsSchemaOf(d))
    THEN CallKwargs(SignatureOf(d.function), json_args)
    ELSE CallNoArgs(SignatureOf(d.function))

\* lines 206-221: the end point bound to descriptor d
flask_end_point(d, json_args) ==
    IF d.validate_schema /\ ~Validates(json_args, ArgsSchemaOf(d))
    THEN NotCalled("ValidationError")
    ELSE WebCall(d, json_args)

\* lines 157-171: the argparse type of the args argument.  It reads the
\* enclosing function's function_descriptor and args_json_schema when argparse
\* calls it (line 175), after the loop of line 152 has left them at the last
\* registered function.  "ValidationError" is the ArgumentTypeError of line 170.
json_or_json_file(loopDescriptor, string) ==
    IF string.t = "notjson" THEN "ArgumentTypeError"
    ELSE IF loopDescriptor.validate_schema /\ ~Validates(string, ArgsSchemaOf(loopDescriptor))
    THEN "ValidationError"
    ELSE "ok"

\* line 179: function(**function_args) if function_args is not None else function()
CliCall(d, function_args) ==
    IF function_args.t \notin {"absent", "null"}
    THEN CallKwargs(SignatureOf(d.function), function_args)
    ELSE CallNoArgs(SignatureOf(d.function))

\* lines 147-183: CommandLineApp.exec for the command line <function_name> [args]
exec(functions, function_name, string) ==
    IF ~Registered(functions, function_name) THEN NotCalled("ArgparseError")
    ELSE LET d == get_function_descriptor(functions, function_name)
             loopDescriptor == functions[Len(functions)][2]
         IN IF string.t = "absent"
            THEN IF has_args(ArgsSchemaOf(d)) THEN NotCalled("ArgparseError")
                 ELSE CliCall(d, string)
            ELSE IF json_or_json_file(loopDescriptor, string) # "ok"
                 THEN NotCalled(json_or_json_file(loopDescriptor, string))
                 ELSE CliCall(d, string)

Call(op, name, descriptor, payload, result) ==
    [op |-> op, name |-> name, descriptor |-> descriptor, payload |-> payload,
     mode |-> result.mode, outcome |-> result.outcome, invoked |-> result.invoked]
Running == last.op # "cli"      \* line 183: exec ends the process
\* registration is the program's start-up: WebService.exec (line 241) serves
\* until the process ends, CommandLineApp.exec ends it
SettingUp == Running /\ ~_flask_app.built

Register(name, function, validate_schema, command_line_function) ==
    /\ SettingUp
    /\ LET r == register(_functions, name, function, validate_schema, command_line_function)
       IN /\ _functions' = r.functions
          /\ last' = Call("register", name,
                          ShellFunctionDescriptor(function, validate_schema,
                                                  command_line_function),
                          Absent, NotCalled(r.outcome))
    /\ UNCHANGED _flask_app

\* shell.get_function_descriptor(name).get_args_json_schema()
GetArgsJsonSchema(name) ==
    /\ Running
    /\ IF Registered(_functions, name)
       THEN /\ _functions' = [_functions EXCEPT ![IndexOf(_functions, name)][2] = Cached(@)]
            /\ last' = Call("get_args_json_schema", name, NoDescriptor, Absent, NotCalled("ok"))
       ELSE /\ last' = Call("get_args_json_schema", name, NoDescriptor, Absent,
                            NotCalled("KeyError"))
            /\ UNCHANGED _functions
    /\ UNCHANGED _flask_app

\* lines 195-237: build the Flask app once, one url rule per non-command-line function
FlaskApp ==
    /\ Running
    /\ ~_flask_app.built
    /\ _flask_app' = [built |-> TRUE, rules |-> get_non_command_line_function_names(_functions)]
    /\ last' = Call("flask_app", "", NoDescriptor, Absent, NotCalled("ok"))
    /\ UNCHANGED _functions

\* a request to /<name> with a JSON body
WebRequest(name, json_args) ==
    /\ Running
    /\ _flask_app.built
    /\ name \in SeqRange(_flask_app.rules)
    /\ LET d == get_function_descriptor(_functions, name)
       IN /\ last' = Call("web", name, NoDescriptor, json_args, flask_end_point(d, json_args))
          /\ _functions' = [_functions EXCEPT ![IndexOf(_functions, name)][2] = Cached(@)]
    /\ UNCHANGED _flask_app

\* CommandLineApp.exec: the loop of line 152 builds every descriptor's schema
CommandLineExec(function_name, string) ==
    /\ Running
    /\ last' = Call("cli", function_name, NoDescriptor, string,
                    exec(_functions, function_name, string))
    /\ _functions' = [i \in 1..Len(_functions) |-> <<_functions[i][1], Cached(_functions[i][2])>>]
    /\ UNCHANGED _flask_app

(***************************************************************************)
(* The parts of the state a specification does not exercise stay at rest.  *)
(***************************************************************************)
NoCall == Call("none", "", NoDescriptor, Absent, NotCalled("none"))

IdleCompile == annotation = Other /\ compiled = Pending
IdleDescriptor ==
    /\ signature = <<>>
    /\ heap = <<>>
    /\ _args_json_schema = 0
    /\ threads = {}
    /\ pc = [t \in Threads |-> Idle]
    /\ todo = [t \in Threads |-> <<>>]
    /\ observed = [t \in Threads |-> NoObservation]
IdleShell ==
    /\ _functions = <<>>
    /\ _flask_app = [built |-> FALSE, rules |-> <<>>]
    /\ last = NoCall

(***************************************************************************)
(* Specification of the compiler: one call on one annotation.              *)
(***************************************************************************)
InitCompile ==
    /\ annotation \in Annotations
    /\ compiled = Pending
    /\ IdleDescriptor
    /\ IdleShell

Compile ==
    /\ compiled.status = "pending"
    /\ compiled' = create_schema_object_from_annotation(annotation)
    /\ UNCHANGED <<annotation, descriptorVars, shellVars>>

NextCompile == Compile

SpecCompile == InitCompile /\ [][NextCompile]_vars

(***************************************************************************)
(* Specifications of one descriptor: its callers are the request-handling  *)
(* threads of the web service, or a single caller.                         *)
(***************************************************************************)
InitDescriptorWith(running) ==
    /\ signature \in Signatures
    /\ heap = <<>>
    /\ _args_json_schema = 0
    /\ threads = running
    /\ pc = [t \in Threads |-> Idle]
    /\ todo = [t \in Threads |-> <<>>]
    /\ observed = [t \in Threads |-> NoObservation]
    /\ IdleCompile
    /\ IdleShell

NextDescriptor ==
    \E t \in Threads :
        \/ CallGetArgsJsonSchema(t) /\ UNCHANGED <<compileVars, shellVars>>
        \/ CallHasArgs(t) /\ UNCHANGED <<compileVars, shellVars>>
        \/ CheckCache(t) /\ UNCHANGED <<compileVars, shellVars>>
        \/ BuildSchema(t) /\ UNCHANGED <<compileVars, shellVars>>
        \/ PatchDefault(t) /\ UNCHANGED <<compileVars, shellVars>>
        \/ CheckRequired(t) /\ UNCHANGED <<compileVars, shellVars>>
        \/ RemoveRequired(t) /\ UNCHANGED <<compileVars, shellVars>>
        \/ ReturnSchema(t) /\ UNCHANGED <<compileVars, shellVars>>

\* request-handling threads sharing one descriptor
InitThreaded == InitDescriptorWith(Threads)
SpecThreaded == InitThreaded /\ [][NextDescriptor]_vars

\* one caller at a time
InitSequential == InitDescriptorWith({"t1"})
SpecSequential == InitSequential /\ [][NextDescriptor]_vars

(***************************************************************************)
(* Specification of a program: registrations, then a front-end.            *)
(***************************************************************************)
InitShell ==
    /\ _functions = <<>>
    /\ _flask_app = [built |-> FALSE, rules |-> <<>>]
    /\ last = NoCall
    /\ IdleCompile
    /\ IdleDescriptor

NextShell ==
    \/ \E name \in Names, function \in FunctionNames, v, c \in BOOLEAN :
          Register(name, function, v, c) /\ UNCHANGED <<compileVars, descriptorVars>>
    \/ \E name \in Names : GetArgsJsonSchema(name) /\ UNCHANGED <<compileVars, descriptorVars>>
    \/ FlaskApp /\ UNCHANGED <<compileVars, descriptorVars>>
    \/ \E name \in Names, json_args \in JsonValues :
          WebRequest(name, json_args) /\ UNCHANGED <<compileVars, descriptorVars>>
    \/ \E name \in Names, string \in JsonValues \cup {Absent, NotJson} :
          CommandLineExec(name, string) /\ UNCHANGED <<compileVars, descriptorVars>>

SpecShell == InitShell /\ [][NextShell]_vars

(***************************************************************************)
(* Properties of the compiler.                                             *)
(***************************************************************************)
HasNoneArg(a) == a.tag = "union" /\ \E i \in 1..Len(a.args) : a.args[i].tag = "none"
MetaIndex(meta, key) ==
    IF \E i \in 1..Len(meta) : meta[i][1] = key
    THEN CHOOSE i \in 1..Len(meta) : meta[i][1] = key
    ELSE 0
\* an Annotated whose metadata has a default key and required: true
DefaultAndRequiredTrue(a) ==
    /\ a.tag = "ann"
    /\ MetaIndex(a.meta, "default") > 0
    /\ MetaIndex(a.meta, "required") > 0
    /\ a.meta[MetaIndex(a.meta, "required")][2] = 1

\* C4: a Union that contains the absence marker compiles to required = false,
\* whatever its other branches are and wherever the marker stands.
C4_NoneArgForcesNotRequired ==
    (compiled.status = "ok" /\ HasNoneArg(annotation)) => ~compiled.required

\* C5: an Annotated with both a default key and required: true compiles to
\* required = false, in whichever order the two keys appear.
C5_DefaultWinsAnyOrder ==
    (compiled.status = "ok" /\ DefaultAndRequiredTrue(annotation)) => ~compiled.required

\* C5 (amended): with both a default key and required: true, the later of the
\* two keys decides: required = false exactly when default comes after required.
C5_LaterKeyDecides ==
    (compiled.status = "ok" /\ DefaultAndRequiredTrue(annotation)) =>
        (compiled.required <=>
            MetaIndex(annotation.meta, "required") > MetaIndex(annotation.meta, "default"))

C5_Witness ==
    /\ compiled.status = "ok"
    /\ DefaultAndRequiredTrue(annotation)
    /\ MetaIndex(annotation.meta, "default") > MetaIndex(annotation.meta, "required")
    /\ ~compiled.required
    /\ Has(compiled.schema, "default")

RECURSIVE Supported(_)
\* built only from the shapes the compiler documents
Supported(a) ==
    CASE a.tag = "prim" -> TRUE
      [] a.tag = "lit" -> TRUE
      [] a.tag = "seq" -> Supported(a.elem)
      [] a.tag = "ann" -> Supported(a.base)
      [] a.tag = "rec" -> \A i \in 1..Len(a.fields) : Supported(a.fields[i][2])
      [] a.tag = "union" ->
            \A i \in 1..Len(a.args) : a.args[i].tag = "none" \/ Supported(a.args[i])
      [] OTHER -> FALSE

\* C8: every annotation built from the supported shapes compiles; compile fails
\* only on an unsupported shape, and then with the ValueError of line 76.
C8_SupportedShapesCompile ==
    compiled.status # "pending" =>
        IF Supported(annotation) THEN compiled.status = "ok"
        ELSE compiled.status = "ValueError"

RECURSIVE Dedup(_)
\* the names of a list, each kept once, in order of first occurrence
Dedup(names) ==
    IF names = <<>> THEN <<>>
    ELSE LET front == Dedup(SubSeq(names, 1, Len(names) - 1))
             x == names[Len(names)]
         IN IF x \in SeqRange(front) THEN front ELSE Append(front, x)

AllPrimOrNone(a) ==
    a.tag = "union" /\ \A i \in 1..Len(a.args) : a.args[i].tag \in {"prim", "none"}
PrimArgs(a) == SelectSeq(a.args, LAMBDA arg : arg.tag = "prim")
MappedNames(a) == [i \in 1..Len(PrimArgs(a)) |-> type_dict_[PrimArgs(a)[i].p]]

\* C9: a Union of primitives (and the absence marker) compiles to the mapped
\* type names without repetition, collapsed to a scalar when one name remains.
C9_UnionTypeNamesDeduplicated ==
    (compiled.status = "ok" /\ AllPrimOrNone(annotation)) =>
        LET names == Dedup(MappedNames(annotation))
        IN compiled.schema["type"] =
              IF Len(names) = 1 THEN Scalar(names[1]) ELSE TypeList(names)

Verdict(a) == create_schema_object_from_annotation(a).required
RequiredFields(fields) ==
    LET kept == SelectSeq(fields, LAMBDA f : Verdict(f[2]))
    IN [i \in 1..Len(kept) |-> kept[i][1]]

\* C10: a non-empty record returns the verdict of its last field (an empty one
\* returns false); a nested-record field is listed as required exactly when the
\* nested record's last field is required; the required list is the fields
\* whose own verdict was true, each a key of properties, in field order.
C10_RecordVerdictIsLastField ==
    (compiled.status = "ok" /\ annotation.tag = "rec") =>
        LET fields == annotation.fields
            n == Len(fields)
        IN IF n = 0 THEN compiled.schema = EmptyDict /\ ~compiled.required
           ELSE /\ compiled.required = Verdict(fields[n][2])
                /\ compiled.schema["required"] = RequiredFields(fields)
                /\ SeqRange(compiled.schema["required"]) \subseteq DOMAIN compiled.schema["properties"]
                /\ DOMAIN compiled.schema["properties"] = {fields[i][1] : i \in 1..n}
                /\ \A i \in 1..n :
                      LET inner == fields[i][2]
                      IN (inner.tag = "rec" /\ Len(inner.fields) > 0) =>
                            (fields[i][1] \in SeqRange(compiled.schema["required"])
                                <=> Verdict(inner.fields[Len(inner.fields)][2]))

\* a nested record whose first field is required and whose last is not, left
\* out of the parent's required list
C10_Witness ==
    /\ compiled.status = "ok"
    /\ annotation.tag = "rec"
    /\ \E i \in 1..Len(annotation.fields) :
          LET inner == annotation.fields[i][2]
          IN /\ inner.tag = "rec"
             /\ Len(inner.fields) > 1
             /\ Verdict(inner.fields[1][2])
             /\ ~Verdict(inner.fields[Len(inner.fields)][2])
             /\ annotation.fields[i][1] \notin SeqRange(compiled.schema["required"])
             /\ compiled.schema["properties"][annotation.fields[i][1]]["required"] # <<>>

(***************************************************************************)
(* Properties of the descriptor.                                           *)
(***************************************************************************)
\* C3: every call of get_args_json_schema, and every has_args built on it,
\* alone or interleaved with other threads, sees the fully compiled and
\* default-patched schema.
C3_EveryCallSeesPatchedSchema ==
    \A t \in Threads :
        observed[t].status = "ok" =>
            LET full == get_args_json_schema(signature).schema
            IN /\ observed[t].call = "get" => observed[t].schema = full
               /\ observed[t].call = "has_args" => observed[t].value = has_args(full)

\* C6: after get_args_json_schema on an operation with parameters, a parameter
\* with a declared default has that default in its sub-schema and is not
\* required; one without is required exactly when the compiler said so.
C6_DefaultsPatched ==
    \A t \in Threads :
        (observed[t].call = "get" /\ observed[t].status = "ok" /\ Len(signature) > 0) =>
            LET schema == observed[t].schema
            IN \A i \in 1..Len(signature) :
                  LET p == signature[i]
                      listed == p.name \in SeqRange(schema["required"])
                  IN IF p.has_default
                     THEN /\ Has(schema["properties"][p.name], "default")
                          /\ schema["properties"][p.name]["default"] = p.default
                          /\ ~listed
                     ELSE listed <=> Verdict(p.annotation)

\* a returned schema of (a: str, b: int = 0)-like signatures: a defaulted
\* parameter the compiler had marked required, next to a required one
C6_Witness ==
    /\ observed["t1"].call = "get"
    /\ observed["t1"].status = "ok"
    /\ \E i, j \in 1..Len(signature) :
          /\ signature[i].has_default
          /\ Verdict(signature[i].annotation)
          /\ ~signature[j].has_default
          /\ observed["t1"].schema["required"] = <<signature[j].name>>

(***************************************************************************)
(* Properties of the registry and of the front-ends.                       *)
(***************************************************************************)
Dispatched == last.op \in {"web", "cli"} /\ Registered(_functions, last.name)
Target == get_function_descriptor(_functions, last.name)
PayloadGiven == last.payload.t \notin {"absent", "notjson"}
ReachedCall == Dispatched /\ last.mode # "none"
\* the fields of the payload handed to the operation as named arguments
PassedFields == IF last.mode = "kwargs" THEN DOMAIN last.payload.f ELSE {}

\* C1: in a dispatch, by either front-end, of an operation registered with
\* validate_schema = True, an argument value that does not validate against
\* the operation's own argument schema never reaches the operation: the
\* operation is invoked only after validation has succeeded.
C1_InvalidArgsNeverInvoke ==
    (Dispatched /\ PayloadGiven /\ Target.validate_schema
        /\ ~Validates(last.payload, ArgsSchemaOf(Target)))
    => ~last.invoked

\* C2: in every front-end the operation is called with the fields expanded as
\* named arguments exactly when has_args() is true; when it is false the
\* operation is called with no arguments and a supplied payload is ignored,
\* not rejected.
C2_KwargsIffHasArgs ==
    /\ (Dispatched /\ last.invoked) =>
          IF has_args(ArgsSchemaOf(Target)) THEN last.mode = "kwargs"
          ELSE PassedFields = {}
    /\ (Dispatched /\ PayloadGiven /\ ~has_args(ArgsSchemaOf(Target)))
          => (last.invoked /\ PassedFields = {})

\* C2 (amended): the end point calls with the fields expanded exactly when
\* has_args() is true and otherwise with no arguments, ignoring a payload that
\* was not rejected by validation; the command line calls with the fields
\* expanded exactly when a payload other than null was given.
C2_KwargsPerFrontEnd ==
    /\ (ReachedCall /\ last.op = "web") =>
          (last.mode = "kwargs" <=> has_args(ArgsSchemaOf(Target)))
    /\ (ReachedCall /\ last.op = "cli") =>
          (last.mode = "kwargs" <=> last.payload.t \notin {"absent", "null"})
    /\ (Dispatched /\ last.op = "web" /\ ~has_args(ArgsSchemaOf(Target))
          /\ (Target.validate_schema => Validates(last.payload, ArgsSchemaOf(Target))))
          => (last.mode = "noargs" /\ last.invoked)

\* the command line passing the fields of a payload to an operation without
\* required arguments, and the end point ignoring one
C2_Witness ==
    /\ Dispatched
    /\ last.invoked
    /\ ~has_args(ArgsSchemaOf(Target))
    /\ last.payload.t = "obj"
    /\ DOMAIN last.payload.f # {}
    /\ \/ last.op = "cli" /\ last.mode = "kwargs"
       \/ last.op = "web" /\ last.mode = "noargs"

SameButCache(d, e) ==
    /\ d.function = e.function
    /\ d.validate_schema = e.validate_schema
    /\ d.command_line_function = e.command_line_function
    /\ d._args_json_schema.set => e._args_json_schema = d._args_json_schema

\* what one step may do to the registry
RegistryStep ==
    IF last'.op = "register" /\ (last' # last \/ _functions' # _functions)
    THEN IF Registered(_functions, last'.name)
         THEN last'.outcome = "ValueError" /\ _functions' = _functions
         ELSE last'.outcome = "ok"
              /\ _functions' = Append(_functions, <<last'.name, last'.descriptor>>)
    ELSE /\ get_function_names(_functions') = get_function_names(_functions)
         /\ \A i \in 1..Len(_functions) : SameButCache(_functions[i][2], _functions'[i][2])

\* C7: a register of a name already present raises and leaves the registry as
\* it was, descriptors with their flags and cached schemas included; every
\* name has one descriptor; get_function_names is the successfully registered
\* names in registration order.
C7_RegisterKeepsFirst ==
    /\ [](IsDistinct(get_function_names(_functions)))
    /\ [][RegistryStep]_vars

\* a refused second registration of a name whose first descriptor, with a
\* cached schema, differs from the one offered
C7_Witness ==
    /\ last.op = "register"
    /\ last.outcome = "ValueError"
    /\ Len(_functions) = 2
    /\ Registered(_functions, last.name)
    /\ get_function_descriptor(_functions, last.name)._args_json_schema.set
    /\ get_function_descriptor(_functions, last.name).function # last.descriptor.function
    /\ get_function_descriptor(_functions, last.name).validate_schema
          # last.descriptor.validate_schema

====
